---- MODULE Spec2Model ----
(***************************************************************************)
(* Model of ReferenceIntegrateRPMDStepKernel                                *)
(* (plugins/rpmd/platforms/reference/src/ReferenceRpmdKernels.cpp):         *)
(* initialize(), setPositions()/setVelocities(), execute() with its closed  *)
(* and open variants, computeForcesClosedPath()/computeForcesOpenPath(),    *)
(* the mode packing of the ring-polymer contraction, and the mode update   *)
(* of the closed path's thermostat.                                        *)
(*                                                                          *)
(* Conventions.                                                             *)
(*  - Arrays keep the source's 0-based indices: positions[k][j] is bead k,   *)
(*    particle j (particles 1..NumParticles).                                *)
(*  - A force-group mask is the set of its set bits (a subset of 0..31).     *)
(*  - Vec3 entries are integers in units in which dt = 1 and halfdt/m = 1;   *)
(*    the three components are treated alike and stand as one.               *)
(*  - Forces are integers in units of a quarter of the smallest engine       *)
(*    force, so that the open path's halving is exact.                       *)
(*  - The FFT/DCT calls themselves are not computed. Where a value passes    *)
(*    through a transform the model keeps which entries are read and which   *)
(*    are written (see Thermostat, Drift, ContractedPositionsOf,             *)
(*    ExtendedForcesOf); the packing of the modes between two transforms is  *)
(*    modelled exactly (PackLoop, UnpackLoop, ZeroLoop), and so is the       *)
(*    update of the thermostat's modes (ClosedModeLoop), on complex bins     *)
(*    with integer parts and an integer for each damping factor.             *)
(***************************************************************************)
EXTENDS Integers, Sequences, FiniteSets, TLC

VARIABLES
    integrator,          \* RPMDIntegrator: numCopies, useOpenPath, applyThermostat, contractions, integrationGroups
    system,              \* System: mass of each particle
    positions,           \* kernel: positions[k][j]
    velocities,          \* kernel: velocities[k][j]
    forces,              \* kernel: forces[k][j]
    groupsByCopies,      \* kernel: map copies -> mask
    groupsNotContracted, \* kernel: mask of the full-P pass
    contractedPositions, \* kernel workspace, maxContractedCopies beads
    contractedForces,    \* kernel workspace, maxContractedCopies beads
    context,             \* ContextImpl: pos, vel, f, box, time, stepCount; what its updaters and forces do (shift, forceMovesBox)
    pc,                  \* position of the caller / of execute()
    call,                \* the running / last execute(): forcesAreValid, path, phase, and the forces each kick used
    i,                   \* loop index of the bead loops
    sched,               \* keys of groupsByCopies still to be visited by the contraction loop
    q,                   \* scratch buffer q of the contraction (length totalCopies)
    copies,              \* g.first of the contraction being processed
    result,              \* how the last execute() ended: "none", "done", "barostat", "contractions"
    steps,               \* number of execute() calls started
    trace,               \* calls issued by the running / last execute(), in order
    entry,               \* ensemble arrays at entry of the running / last execute()
    boxChangedInCalc,    \* some calcForcesAndEnergy of the running / last execute() changed the box
    draws,               \* random normals consumed: their number so far, and those of the last thermostat application in order
    q0,                  \* the buffer q as it was before the packing / unpacking acted
    audit,               \* particles whose stored state the phases of this execute() touched; execute() calls completed
    v,                   \* scratch buffer v of the thermostat (length numCopies, complex)
    applied              \* the buffer v before the mode update, the normals it drew, the writes each bin received

vars == <<integrator, system, positions, velocities, forces, groupsByCopies,
          groupsNotContracted, contractedPositions, contractedForces, context,
          pc, call, i, sched, q, copies, result, steps, trace, entry,
          boxChangedInCalc, draws, q0, audit, v, applied>>

modeVars == <<v, applied>>

----------------------------------------------------------------------------
(* Bounds of the model. *)

MaxCopies == 3            \* numCopies ranges over 1..MaxCopies in Spec
MaxSteps == 2             \* execute() is called at most MaxSteps times
MaxPackCopies == 6        \* totalCopies ranges over 1..MaxPackCopies in SpecContraction
MaxVal == 2               \* spectrum entries range over 1..MaxVal in SpecContraction
MaxModeCopies == 4        \* numCopies ranges over 1..MaxModeCopies in SpecThermostat
MaxMode == 1              \* real and imaginary parts of a mode range over 0..MaxMode in SpecThermostat
MaxNoise == 2             \* scaled normals range over 1..MaxNoise in SpecThermostat

NumParticles == 1         \* particles of the System
Particles == 1..NumParticles

\* Force groups that hold a force of the System.
SystemGroups == {0, 1}

AllGroups == 0..31

Beads(n) == 0..(n-1)

Min(S) == CHOOSE x \in S : \A y \in S : x <= y

Max(S) == CHOOSE x \in S : \A y \in S : x >= y

ZeroVec == [j \in Particles |-> 0]

----------------------------------------------------------------------------
(* initialize() *)

\* One iteration of the loop over the contractions map (lines 79-96).
\* st.threw is "" until a throw leaves the loop.
ContractionEntry(st, group, ncopies, numCopies) ==
    IF group < 0 \/ group > 31
    THEN [st EXCEPT !.threw = "group"]
    ELSE IF ncopies < 0 \/ ncopies > numCopies
    THEN [st EXCEPT !.threw = "copies"]
    ELSE IF ncopies # numCopies
    THEN [st EXCEPT
            !.groupsByCopies =
                IF ncopies \notin DOMAIN @
                THEN @ @@ (ncopies :> {group})
                ELSE [@ EXCEPT ![ncopies] = @ \cup {group}],
            !.maxContractedCopies =
                IF ncopies \notin DOMAIN st.groupsByCopies /\ ncopies > @
                THEN ncopies ELSE @,
            \* groupsNotContracted -= 1<<group: the keys of a std::map are
            \* distinct, so the bit is still set and the subtraction clears it.
            !.groupsNotContracted = @ \ {group}]
    ELSE st

\* The loop of lines 79-96, in the ascending key order of std::map.
RECURSIVE ContractionLoop(_, _, _, _)
ContractionLoop(st, keys, contractions, numCopies) ==
    IF keys = {} \/ st.threw # "" THEN st
    ELSE LET group == Min(keys)
         IN ContractionLoop(ContractionEntry(st, group, contractions[group], numCopies),
                            keys \ {group}, contractions, numCopies)

\* Lines 76-97: the schedule, groupsNotContracted and the workspace size.
BuildContractions(contractions, numCopies, integrationGroups) ==
    LET st0 == [groupsByCopies |-> <<>>, groupsNotContracted |-> AllGroups,
                maxContractedCopies |-> 0, threw |-> ""]
        st == ContractionLoop(st0, DOMAIN contractions, contractions, numCopies)
    IN IF st.threw # "" THEN st
       ELSE [st EXCEPT !.groupsNotContracted = @ \cap integrationGroups]

Initialize ==
    /\ pc = "constructed"
    /\ LET n == integrator.numCopies
           st == BuildContractions(integrator.contractions, n, integrator.integrationGroups)
       IN /\ positions' = [k \in Beads(n) |-> ZeroVec]
          /\ velocities' = [k \in Beads(n) |-> ZeroVec]
          /\ forces' = [k \in Beads(n) |-> ZeroVec]
          /\ groupsByCopies' = st.groupsByCopies
          /\ groupsNotContracted' = st.groupsNotContracted
          /\ IF st.threw # ""
             THEN /\ pc' = "initError"
                  /\ UNCHANGED <<contractedPositions, contractedForces>>
             ELSE /\ pc' = "load"
                  /\ contractedPositions' = [k \in Beads(st.maxContractedCopies) |-> ZeroVec]
                  /\ contractedForces' = [k \in Beads(st.maxContractedCopies) |-> ZeroVec]
    /\ i' = 0
    /\ UNCHANGED <<modeVars, audit, integrator, system, context, call, sched, q, copies, result,
                   steps, trace, entry, boxChangedInCalc, draws, q0>>

----------------------------------------------------------------------------
(* setPositions() / setVelocities() *)

\* The caller loads the beads in ascending order, positions then velocities,
\* before the first step; bead k is given position k+1 and velocity 1.
BeadPositions(copy) == {[j \in Particles |-> copy + 1]}

BeadVelocities(copy) == {[j \in Particles |-> 1]}

kernelConfig == <<integrator, system, groupsByCopies, groupsNotContracted>>

packVars == <<q, copies, q0>>

SetPositions(copy) ==
    /\ pc = "load"
    /\ copy = i
    /\ \E p \in BeadPositions(copy) :
          positions' = [positions EXCEPT ![copy] = [j \in Particles |-> p[j]]]
    /\ pc' = "loadVelocities"
    /\ UNCHANGED <<modeVars, audit, kernelConfig, packVars, velocities, forces, contractedPositions,
                   contractedForces, context, call, i, sched, result, steps, trace,
                   entry, boxChangedInCalc, draws>>

SetVelocities(copy) ==
    /\ pc = "loadVelocities"
    /\ copy = i
    /\ \E vel \in BeadVelocities(copy) :
          velocities' = [velocities EXCEPT ![copy] = [j \in Particles |-> vel[j]]]
    /\ i' = i + 1
    /\ pc' = IF i + 1 < integrator.numCopies THEN "load" ELSE "idle"
    /\ UNCHANGED <<modeVars, audit, kernelConfig, packVars, positions, forces, contractedPositions,
                   contractedForces, context, call, sched, result, steps, trace,
                   entry, boxChangedInCalc, draws>>

----------------------------------------------------------------------------
(* The external collaborators: the physics engine and the state updaters. *)

\* Weight of the groups of a mask that hold a force of the System.
MaskWeight(mask) == (IF 0 \in mask THEN 1 ELSE 0) + (IF 1 \in mask THEN 2 ELSE 0)

\* calcForcesAndEnergy(true, false, mask) on the context's positions: a
\* deterministic function of the positions and of the mask.
EngineForce(pos, mask) == [j \in Particles |-> 4 * MaskWeight(mask) * (pos[j] + 1)]

\* The periodic box vectors, as one value.
BoxVals == 0..1

\* What the state updaters of a context add to its velocities at each
\* updateContextState: nothing, or a fixed shift.
UpdateShifts == {0, 8}

\* The box after a force evaluation: a force of the context moves the box at
\* every evaluation, or at none.
BoxAfterForces(ctx) ==
    IF ctx.forceMovesBox THEN CHOOSE b \in BoxVals : b # ctx.box ELSE ctx.box

Event(op, bead, mask, changed) == [op |-> op, bead |-> bead, mask |-> mask, changed |-> changed]

----------------------------------------------------------------------------
(* execute() *)

\* Line 418: the variant execute() dispatches to.
ExecutePath(useOpenPath) == IF useOpenPath THEN "open" ELSE "closed"

\* A step that evaluates the forces first whatever the flag says.
AlwaysInitialForces(forcesAreValid) == TRUE

\* Lines 121 / 275: whether the step starts with a force evaluation.
NeedInitialForces(forcesAreValid) == ~forcesAreValid

\* The phase a step starts with (lines 121-135 / 275-292).
FirstPhase(forcesAreValid, applyThermostat) ==
    IF NeedInitialForces(forcesAreValid) THEN "forces1"
    ELSE IF applyThermostat THEN "thermostat1" ELSE "kick1"

\* A step that goes from the drift straight to the second kick.
NextPhaseStaleForces(phase, applyThermostat) ==
    CASE phase = "forces1" -> IF applyThermostat THEN "thermostat1" ELSE "kick1"
      [] phase = "thermostat1" -> "kick1"
      [] phase = "kick1" -> "drift"
      [] phase = "drift" -> "kick2"
      [] phase = "forces2" -> "kick2"
      [] phase = "kick2" -> IF applyThermostat THEN "thermostat2" ELSE "setTime"
      [] phase = "thermostat2" -> "setTime"

\* The phase that follows a phase, in the order of the statements of
\* executeClosedPath (lines 121-260) and executeOpenPath (lines 275-414).
NextPhase(phase, applyThermostat) ==
    CASE phase = "forces1" -> IF applyThermostat THEN "thermostat1" ELSE "kick1"
      [] phase = "thermostat1" -> "kick1"
      [] phase = "kick1" -> "drift"
      [] phase = "drift" -> "forces2"
      [] phase = "forces2" -> "kick2"
      [] phase = "kick2" -> IF applyThermostat THEN "thermostat2" ELSE "setTime"
      [] phase = "thermostat2" -> "setTime"

PcOf(phase) ==
    CASE phase \in {"forces1", "forces2"} -> "computeForces"
      [] phase \in {"thermostat1", "thermostat2"} -> "thermostat"
      [] phase \in {"kick1", "kick2"} -> "kick"
      [] phase = "drift" -> "drift"
      [] phase = "setTime" -> "setTime"

\* The caller steps the kernel again after a completed step and after the
\* contractions error; after the barostat error it has to replace the barostat.
Execute(forcesAreValid) ==
    /\ pc = "idle"
    /\ result # "barostat"
    /\ steps < MaxSteps
    /\ steps' = steps + 1
    /\ LET first == FirstPhase(forcesAreValid, integrator.applyThermostat)
       IN /\ call' = [forcesAreValid |-> forcesAreValid,
                      path |-> ExecutePath(integrator.useOpenPath),
                      phase |-> first, kicks |-> <<>>]
          /\ pc' = PcOf(first)
    /\ trace' = <<>>
    /\ result' = "none"
    /\ entry' = [positions |-> positions, velocities |-> velocities, forces |-> forces,
                 draws |-> draws.count, time |-> context.time,
                 stepCount |-> context.stepCount]
    /\ boxChangedInCalc' = FALSE
    /\ audit' = [audit EXCEPT !.touched = {}]
    /\ UNCHANGED <<modeVars, kernelConfig, packVars, positions, velocities, forces,
                   contractedPositions, contractedForces, context, i, sched, draws>>

\* Control leaves the current phase for the next statement of execute().
Advance ==
    LET next == NextPhase(call.phase, integrator.applyThermostat)
    IN /\ call' = [call EXCEPT !.phase = next]
       /\ pc' = PcOf(next)

\* A loop that takes no mode for the Nyquist mode.
NeverCenter(k, numCopies) == FALSE

\* Line 153: k is the Nyquist mode of an even number of copies.
IsCenter(k, numCopies) == numCopies % 2 = 0 /\ k = numCopies \div 2

\* Lines 152-163: the normals the loop over the modes k..numCopies/2 of the
\* closed path draws, in the order of the calls: rand1, then rand2 unless
\* isCenter.
RECURSIVE ClosedModeDraws(_, _)
ClosedModeDraws(k, numCopies) ==
    IF k > numCopies \div 2 THEN <<>>
    ELSE <<[k |-> k, part |-> "rand1"]>>
         \o (IF IsCenter(k, numCopies) THEN <<>> ELSE <<[k |-> k, part |-> "rand2"]>>)
         \o ClosedModeDraws(k + 1, numCopies)

\* Lines 308-315: the loop over the modes k..numCopies-1 of the open path
\* draws rand1 for each.
RECURSIVE OpenModeDraws(_, _)
OpenModeDraws(k, numCopies) ==
    IF k >= numCopies THEN <<>>
    ELSE <<[k |-> k, part |-> "rand1"]>> \o OpenModeDraws(k + 1, numCopies)

\* Lines 148-163 (closed), 304-315 (open): the centroid's normal, then the
\* loop over the modes.
ModeDraws(path, numCopies) ==
    <<[k |-> 0, part |-> "centroid"]>>
    \o (IF path = "closed" THEN ClosedModeDraws(1, numCopies)
        ELSE OpenModeDraws(1, numCopies))

\* Random normals one thermostat application draws for one component of one
\* particle.
DrawsPerComponent(path, numCopies) == Len(ModeDraws(path, numCopies))

\* Lines 140 / 297: the loop over the components of a particle.
Components == 0..2

ComponentDraws(particle, component, path, numCopies) ==
    [n \in 1..DrawsPerComponent(path, numCopies) |->
        [particle |-> particle, component |-> component,
         k |-> ModeDraws(path, numCopies)[n].k,
         part |-> ModeDraws(path, numCopies)[n].part]]

\* A thermostat, kick and drift that treat every particle alike.
EveryParticle == Particles

\* Lines 137, 175, 181, 217 (closed), 294, 329, 335, 374 (open): the particles
\* the loops of the thermostat, of the kicks and of the drift do not skip.
Massive == {j \in Particles : system.mass[j] # 0}

\* Lines 136-169 / 293-323: the loop over the particles from `particle` on; a
\* particle of zero mass is skipped, any other draws for component 0, 1, 2.
RECURSIVE ThermostatDraws(_, _, _)
ThermostatDraws(particle, path, numCopies) ==
    IF particle > NumParticles THEN <<>>
    ELSE (IF particle \in Massive
          THEN ComponentDraws(particle, 0, path, numCopies)
               \o ComponentDraws(particle, 1, path, numCopies)
               \o ComponentDraws(particle, 2, path, numCopies)
          ELSE <<>>)
         \o ThermostatDraws(particle + 1, path, numCopies)

\* Lines 135-169, 222-255 (closed), 292-323, 379-409 (open). The mode-space
\* update rewrites the velocity of every bead of every particle of non-zero
\* mass; the value written stands for the transformed one.
Thermostat ==
    /\ pc = "thermostat"
    /\ velocities' = [k \in Beads(integrator.numCopies) |->
                         [j \in Particles |->
                             IF j \in Massive THEN velocities[k][j] + 1 ELSE velocities[k][j]]]
    /\ LET drawn == ThermostatDraws(1, call.path, integrator.numCopies)
       IN draws' = [count |-> draws.count + Len(drawn), last |-> drawn]
    /\ audit' = [audit EXCEPT !.touched = @ \cup Massive]
    /\ Advance
    /\ trace' = Append(trace, Event("thermostat", -1, {}, FALSE))
    /\ UNCHANGED <<modeVars, kernelConfig, packVars, positions, forces, contractedPositions,
                   contractedForces, context, i, sched, result, steps, entry,
                   boxChangedInCalc>>

\* Lines 173-176, 215-218 (closed), 327-331, 372-376 (open).
Kick ==
    /\ pc = "kick"
    /\ velocities' = [k \in Beads(integrator.numCopies) |->
                         [j \in Particles |->
                             IF j \in Massive THEN velocities[k][j] + forces[k][j]
                             ELSE velocities[k][j]]]
    /\ LET next == NextPhase(call.phase, integrator.applyThermostat)
       IN /\ call' = [call EXCEPT !.phase = next, !.kicks = Append(@, forces)]
          /\ pc' = PcOf(next)
    /\ audit' = [audit EXCEPT !.touched = @ \cup Massive]
    /\ trace' = Append(trace, Event("kick", -1, {}, FALSE))
    /\ UNCHANGED <<modeVars, kernelConfig, packVars, positions, forces, contractedPositions,
                   contractedForces, context, i, sched, result, steps, entry,
                   boxChangedInCalc, draws>>

\* Lines 180-207 (closed), 334-364 (open): the free polymer. Positions and
\* velocities of every bead of every particle of non-zero mass are rewritten;
\* the value written is that of the centroid rule q += v*dt.
Drift ==
    /\ pc = "drift"
    /\ positions' = [k \in Beads(integrator.numCopies) |->
                        [j \in Particles |->
                            IF j \in Massive THEN positions[k][j] + velocities[k][j]
                            ELSE positions[k][j]]]
    /\ audit' = [audit EXCEPT !.touched = @ \cup Massive]
    /\ Advance
    /\ trace' = Append(trace, Event("drift", -1, {}, FALSE))
    /\ UNCHANGED <<modeVars, kernelConfig, packVars, velocities, forces, contractedPositions,
                   contractedForces, context, i, sched, result, steps, entry,
                   boxChangedInCalc, draws>>

\* A step that leaves the step count as it was.
StepCountKept(stepCount) == stepCount

\* Lines 260 / 414: setStepCount(getStepCount() + 1).
StepCountAfter(stepCount) == stepCount + 1

\* Lines 259 / 413: setTime(getTime() + dt), in units of the step size.
TimeAfter(time) == time + 1

\* Lines 259-260 / 413-414.
SetTime ==
    /\ pc = "setTime"
    /\ context' = [context EXCEPT !.time = TimeAfter(@), !.stepCount = StepCountAfter(@)]
    /\ audit' = [audit EXCEPT !.completed = @ + 1]
    /\ call' = [call EXCEPT !.phase = "returned"]
    /\ pc' = "idle"
    /\ result' = "done"
    /\ trace' = Append(trace, Event("setTime", -1, {}, FALSE))
    /\ UNCHANGED <<modeVars, kernelConfig, packVars, positions, velocities, forces,
                   contractedPositions, contractedForces, i, sched, steps, entry,
                   boxChangedInCalc, draws>>

----------------------------------------------------------------------------
(* The mode update of the closed path's thermostat (lines 148-163, 234-249) *)

Complex(re, im) == [re |-> re, im |-> im]

Conj(z) == Complex(z.re, -z.im)

\* z*c1 + w for a real c1.
DampedPlus(z, c1, w) == Complex(z.re * c1 + w.re, z.im * c1 + w.im)

\* Lines 132, 155: c1_0 for the centroid and c1 = exp(-2*wk*halfdt) for mode
\* k, one value for each k; an integer stands for the real factor.
Damping(k, numCopies) == k + 2

\* A mirror bin that receives the noise of its partner as it is.
SameNoise(rand1, rand2) == Complex(rand1, rand2)

\* Line 162: the noise added to bin numCopies-k.
MirrorNoise(rand1, rand2) == Complex(rand1, -rand2)

\* An assignment to bin `bin` of the buffer: v[bin] = v[bin]*c1 + noise.
WriteBin(st, bin, c1, noise) ==
    [st EXCEPT !.v[bin] = DampedPlus(@, c1, noise),
               !.writes[bin] = Append(@, [c1 |-> c1, noise |-> noise])]

\* Line 148: v[0].real(v[0].real()*c1_0 + c3_0*normal); the imaginary part of
\* v[0] is not assigned.
CentroidUpdate(st, numCopies, normals) ==
    LET c1_0 == Damping(0, numCopies)
        rand == normals[st.n]
    IN [st EXCEPT !.v[0] = Complex(@.re * c1_0 + rand, @.im),
                  !.writes[0] = Append(@, [c1 |-> c1_0, noise |-> Complex(rand, 0)]),
                  !.n = @ + 1]

\* Lines 152-163: the loop over the modes k..numCopies/2; normals[st.n] is the
\* next normal drawn (scaled by c3).
RECURSIVE ClosedModeLoop(_, _, _, _)
ClosedModeLoop(st, k, numCopies, normals) ==
    IF k > numCopies \div 2 THEN st
    ELSE LET isCenter == IsCenter(k, numCopies)
             c1 == Damping(k, numCopies)
             rand1 == normals[st.n]
             rand2 == IF isCenter THEN 0 ELSE normals[st.n + 1]
             drawn == IF isCenter THEN 1 ELSE 2
             own == WriteBin(st, k, c1, Complex(rand1, rand2))
             both == IF k < numCopies - k
                     THEN WriteBin(own, numCopies - k, c1, MirrorNoise(rand1, rand2))
                     ELSE own
         IN ClosedModeLoop([both EXCEPT !.n = @ + drawn], k + 1, numCopies, normals)

\* Lines 148-163 for one component of one particle: the buffer v holds the
\* forward transform of the bead velocities and is updated in place.
ThermostatModes ==
    /\ pc = "modes"
    /\ \E normals \in [1..DrawsPerComponent("closed", integrator.numCopies) -> 1..MaxNoise] :
          LET P == integrator.numCopies
              st0 == [v |-> v, n |-> 1, writes |-> [b \in Beads(P) |-> <<>>]]
              st == ClosedModeLoop(CentroidUpdate(st0, P, normals), 1, P, normals)
          IN /\ v' = st.v
             /\ applied' = [before |-> v, noise |-> normals, writes |-> st.writes]
    /\ pc' = "modesDone"
    /\ UNCHANGED <<kernelConfig, packVars, audit, positions, velocities, forces,
                   contractedPositions, contractedForces, context, call, i, sched,
                   result, steps, trace, entry, boxChangedInCalc, draws>>

----------------------------------------------------------------------------
(* computeForcesClosedPath() / computeForcesOpenPath(): the full-P pass *)

\* Control returns from computeForces*Path to execute().
ReturnToExecute == Advance

\* Lines 423-427 / 512-516: entry of computeForcesClosedPath / computeForcesOpenPath.
ComputeForces ==
    /\ pc = "computeForces"
    /\ i' = 0
    /\ pc' = "update"
    /\ trace' = Append(trace, Event("computeForces", -1, {}, FALSE))
    /\ UNCHANGED <<modeVars, audit, kernelConfig, packVars, positions, velocities, forces,
                   contractedPositions, contractedForces, context, call, sched, result,
                   steps, entry, boxChangedInCalc, draws>>

\* A test that never sees the box move.
BoxNeverChanged(initialBox, finalBox) == FALSE

\* Lines 440 / 529: the test on the box snapshots taken around updateContextState.
BoxChanged(initialBox, finalBox) == initialBox # finalBox

\* A copy back that runs before the test.
StoredFromContext(stored, fromContext, threw) == fromContext

\* Lines 440-443 / 529-532: what bead storage holds after the test: the throw
\* leaves it as it was, otherwise it is overwritten from the context.
StoredAfterUpdate(stored, fromContext, threw) == IF threw THEN stored ELSE fromContext

\* Lines 432-443 / 521-532 for bead i: stage the bead, computeVirtualSites (the
\* System has no virtual sites), snapshot the box, updateContextState (which
\* may move the box and the velocities), snapshot again, throw or copy back.
UpdateContextState ==
    /\ pc = "update"
    /\ \E finalBox \in BoxVals :
          LET initialBox == context.box
              pos == positions[i]
              vel == [j \in Particles |-> velocities[i][j] + context.shift]
              threw == BoxChanged(initialBox, finalBox)
          IN /\ context' = [context EXCEPT !.pos = pos, !.vel = vel, !.box = finalBox]
             /\ trace' = Append(trace, Event("updateContextState", i, {}, initialBox # finalBox))
             /\ positions' = [positions EXCEPT ![i] = StoredAfterUpdate(@, pos, threw)]
             /\ velocities' = [velocities EXCEPT ![i] = StoredAfterUpdate(@, vel, threw)]
             /\ IF threw
                THEN /\ pc' = "idle"
                     /\ result' = "barostat"
                ELSE /\ pc' = "calc"
                     /\ UNCHANGED result
    /\ UNCHANGED <<modeVars, audit, kernelConfig, packVars, forces, contractedPositions, contractedForces,
                   call, i, sched, steps, entry, boxChangedInCalc, draws>>

\* An open path that skips the loop over the schedule.
OpenPathAccepts(schedule) == FALSE

\* Lines 547-549: the body of the open path's loop over groupsByCopies is
\* entered, and throws, when the schedule has an entry.
OpenPathRejects(schedule) == DOMAIN schedule # {}

\* Lines 444-446 / 533-535 for bead i: calcForcesAndEnergy with
\* groupsNotContracted (a force may move the box while it is evaluated),
\* forces[i] = f, next bead; after the last bead the closed path goes on to the
\* contraction loop (line 450) and the open path to the endpoints (line 538).
CalcForcesAndEnergy ==
    /\ pc = "calc"
    /\ LET f == EngineForce(context.pos, groupsNotContracted)
           finalBox == BoxAfterForces(context)
       IN /\ context' = [context EXCEPT !.f = f, !.box = finalBox]
          /\ forces' = [forces EXCEPT ![i] = f]
          /\ boxChangedInCalc' = (boxChangedInCalc \/ finalBox # context.box)
    /\ trace' = Append(trace, Event("calcForcesAndEnergy", i, groupsNotContracted, FALSE))
    /\ i' = i + 1
    /\ IF i + 1 < integrator.numCopies
       THEN /\ pc' = "update"
            /\ UNCHANGED <<call, sched>>
       ELSE IF call.path = "open"
       THEN /\ pc' = "endpoints"
            /\ UNCHANGED <<call, sched>>
       ELSE IF DOMAIN groupsByCopies # {}
       THEN /\ pc' = "contract"
            /\ sched' = DOMAIN groupsByCopies
            /\ UNCHANGED call
       ELSE /\ ReturnToExecute
            /\ UNCHANGED sched
    /\ UNCHANGED <<modeVars, audit, kernelConfig, packVars, positions, velocities, contractedPositions,
                   contractedForces, result, steps, entry, draws>>

\* forces[b][j] *= 0.5 for every particle j.
Halved(f, b) == [f EXCEPT ![b] = [j \in Particles |-> f[b][j] \div 2]]

\* Lines 538-549: the endpoint forces are halved, first bead 0 and then bead
\* totalCopies-1, and the loop over the schedule throws at its first entry.
OpenEndpoints ==
    /\ pc = "endpoints"
    /\ forces' = Halved(Halved(forces, 0), integrator.numCopies - 1)
    /\ IF OpenPathRejects(groupsByCopies)
       THEN /\ pc' = "idle"
            /\ result' = "contractions"
            /\ UNCHANGED call
       ELSE /\ ReturnToExecute
            /\ UNCHANGED result
    /\ UNCHANGED <<modeVars, audit, kernelConfig, packVars, positions, velocities, contractedPositions,
                   contractedForces, context, i, sched, steps, trace, entry,
                   boxChangedInCalc, draws>>

----------------------------------------------------------------------------
(* The mode packing of the contraction (closed path) *)

\* A start rounded up instead of down.
StartCeil(ncopies) == (ncopies + 2) \div 2

\* Lines 466 / 497: int start = (copies+1)/2.
Start(ncopies) == (ncopies + 1) \div 2

\* Lines 467 / 498: int end = totalCopies-copies+start.
End(totalCopies, ncopies) == totalCopies - ncopies + Start(ncopies)

\* Lines 468-469: for (k = end; k < totalCopies; k++) q[k-(totalCopies-copies)] = q[k],
\* in place and in ascending k.
RECURSIVE PackLoop(_, _, _, _)
PackLoop(buf, k, totalCopies, ncopies) ==
    IF k >= totalCopies THEN buf
    ELSE PackLoop([buf EXCEPT ![k - (totalCopies - ncopies)] = buf[k]],
                  k + 1, totalCopies, ncopies)

\* Lines 465-471: the buffer between the forward transform of length
\* totalCopies and the inverse transform of length copies (or, for copies <= 1,
\* the read of line 473).
PackRetainedModes(buf, totalCopies, ncopies) ==
    IF ncopies > 1 THEN PackLoop(buf, End(totalCopies, ncopies), totalCopies, ncopies)
    ELSE buf

\* Lines 499-500: for (k = end; k < totalCopies; k++) q[k] = q[k-(totalCopies-copies)],
\* in place and in ascending k.
RECURSIVE UnpackLoop(_, _, _, _)
UnpackLoop(buf, k, totalCopies, ncopies) ==
    IF k >= totalCopies THEN buf
    ELSE UnpackLoop([buf EXCEPT ![k] = buf[k - (totalCopies - ncopies)]],
                    k + 1, totalCopies, ncopies)

\* Lines 501-502: for (k = start; k < end; k++) q[k] = 0.
ZeroLoop(buf, from, to) == [k \in DOMAIN buf |-> IF from <= k /\ k < to THEN 0 ELSE buf[k]]

\* Lines 497-502: the buffer between the forward transform of length copies
\* and the inverse transform of length totalCopies.
UnpackForceModes(buf, totalCopies, ncopies) ==
    ZeroLoop(UnpackLoop(buf, End(totalCopies, ncopies), totalCopies, ncopies),
             Start(ncopies), End(totalCopies, ncopies))

\* The step of lines 465-471 on the spectrum held in q.
PackModes ==
    /\ pc = "positionSpectrum"
    /\ q' = PackRetainedModes(q, integrator.numCopies, copies)
    /\ pc' = "packed"
    /\ UNCHANGED <<modeVars, audit, kernelConfig, positions, velocities, forces, contractedPositions,
                   contractedForces, context, call, i, sched, copies, result, steps,
                   trace, entry, boxChangedInCalc, draws, q0>>

\* The step of lines 497-502 on the spectrum held in q[0..copies-1].
UnpackModes ==
    /\ pc = "forceSpectrum"
    /\ q' = UnpackForceModes(q, integrator.numCopies, copies)
    /\ pc' = "unpacked"
    /\ UNCHANGED <<modeVars, audit, kernelConfig, positions, velocities, forces, contractedPositions,
                   contractedForces, context, call, i, sched, copies, result, steps,
                   trace, entry, boxChangedInCalc, draws, q0>>

----------------------------------------------------------------------------
(* computeForcesClosedPath(): the loop over the contractions *)

RECURSIVE SumBeads(_, _, _)
SumBeads(arr, n, j) == IF n = 0 THEN 0 ELSE arr[n-1][j] + SumBeads(arr, n - 1, j)

\* Lines 456-475: every contracted bead is computed from all totalCopies beads
\* of the particle (forward transform, packing, inverse transform, scale1); the
\* value written is the unscaled centroid, which is the exact result for
\* copies = 1 up to scale1.
ContractedPositionsOf(pos, totalCopies, ncopies) ==
    [k \in Beads(ncopies) |-> [j \in Particles |-> SumBeads(pos, totalCopies, j)]]

\* Lines 488-505: the term added to the force of every bead is computed from
\* all contracted forces of the particle (forward transform, unpacking, inverse
\* transform, scale2); the value is the sum of the contracted forces, which is
\* the exact result for copies = 1.
ExtendedForcesOf(cforces, totalCopies, ncopies) ==
    [k \in Beads(totalCopies) |-> [j \in Particles |-> SumBeads(cforces, ncopies, j)]]

\* Lines 450-475, for the next entry of groupsByCopies in key order.
ContractPositions ==
    /\ pc = "contract"
    /\ LET g == Min(sched)
           cp == ContractedPositionsOf(positions, integrator.numCopies, g)
       IN /\ copies' = g
          /\ contractedPositions' =
                [k \in DOMAIN contractedPositions |->
                    IF k < g THEN cp[k] ELSE contractedPositions[k]]
          /\ pc' = IF g > 0 THEN "contractedCalc" ELSE "extend"
    /\ i' = 0
    /\ UNCHANGED <<modeVars, audit, kernelConfig, positions, velocities, forces, contractedForces,
                   context, call, sched, q, q0, result, steps, trace, entry,
                   boxChangedInCalc, draws>>

\* Lines 479-484 for contracted bead i: stage its positions (the context keeps
\* the velocities of the last full bead), calcForcesAndEnergy with the entry's
\* mask, contractedForces[i] = f.
ContractedCalc ==
    /\ pc = "contractedCalc"
    /\ LET pos == contractedPositions[i]
           f == EngineForce(pos, groupsByCopies[copies])
           finalBox == BoxAfterForces(context)
       IN /\ context' = [context EXCEPT !.pos = pos, !.f = f, !.box = finalBox]
          /\ contractedForces' = [contractedForces EXCEPT ![i] = f]
          /\ boxChangedInCalc' = (boxChangedInCalc \/ finalBox # context.box)
    /\ trace' = Append(trace, Event("contractedCalc", i, groupsByCopies[copies], FALSE))
    /\ i' = i + 1
    /\ pc' = IF i + 1 < copies THEN "contractedCalc" ELSE "extend"
    /\ UNCHANGED <<modeVars, audit, kernelConfig, packVars, positions, velocities, forces,
                   contractedPositions, call, sched, result, steps, entry, draws>>

\* A force that is replaced by the term of the contraction.
Overwritten(stored, term) == term

\* Line 505: forces[k][particle][component] += scale2*q[k].real().
Accumulated(stored, term) == stored + term

\* Lines 488-508: the extended forces are added to the forces of every bead;
\* then the loop goes to the next entry or the function returns.
ExtendForces ==
    /\ pc = "extend"
    /\ LET add == ExtendedForcesOf(contractedForces, integrator.numCopies, copies)
       IN forces' = [k \in Beads(integrator.numCopies) |->
                        [j \in Particles |-> Accumulated(forces[k][j], add[k][j])]]
    /\ sched' = sched \ {copies}
    /\ IF sched \ {copies} # {}
       THEN /\ pc' = "contract"
            /\ UNCHANGED call
       ELSE ReturnToExecute
    /\ UNCHANGED <<modeVars, audit, kernelConfig, packVars, positions, velocities, contractedPositions,
                   contractedForces, context, i, result, steps, trace, entry,
                   boxChangedInCalc, draws>>

----------------------------------------------------------------------------
(* Specifications *)

\* Partial maps from a set of groups to copy counts.
Maps(groups, counts) == UNION {[S -> counts] : S \in SUBSET groups}

\* The contractions of Spec: none; group 1 on one bead; group 1 on all beads
\* (which is no contraction); group 0 on one bead and group 1 on all but one.
StepContractions(numCopies) ==
    {<<>>, 1 :> 1, 1 :> numCopies}
    \cup (IF numCopies >= 3 THEN {0 :> 1 @@ 1 :> (numCopies - 1)} ELSE {})

StepIntegrationGroups == {AllGroups, {0}}

\* The groups and integration masks of SpecInitialize.
InitGroups == {-1, 0, 1, 31, 32}

InitIntegrationGroups == {AllGroups, {0}, {0, 1}, {1, 31}}

NoCall == [forcesAreValid |-> TRUE, path |-> "closed", phase |-> "returned", kicks |-> <<>>]

Constructed(shifts, moves) ==
    /\ positions = <<>>
    /\ velocities = <<>>
    /\ forces = <<>>
    /\ groupsByCopies = <<>>
    /\ groupsNotContracted = {}
    /\ contractedPositions = <<>>
    /\ contractedForces = <<>>
    /\ context \in [pos : {ZeroVec}, vel : {ZeroVec}, f : {ZeroVec}, box : {0},
                   time : {0}, stepCount : {0}, shift : shifts, forceMovesBox : moves]
    /\ call = NoCall
    /\ i = 0
    /\ sched = {}
    /\ result = "none"
    /\ steps = 0
    /\ trace = <<>>
    /\ entry = [positions |-> <<>>, velocities |-> <<>>, forces |-> <<>>,
                draws |-> 0, time |-> 0, stepCount |-> 0]
    /\ boxChangedInCalc = FALSE
    /\ draws = [count |-> 0, last |-> <<>>]
    /\ audit = [touched |-> {}, completed |-> 0]
    /\ v = <<>>
    /\ applied = [before |-> <<>>, noise |-> <<>>, writes |-> <<>>]

\* A kernel constructed for an integrator and a System, before initialize().
Init ==
    /\ \E n \in 1..MaxCopies :
          integrator \in [numCopies : {n}, useOpenPath : BOOLEAN, applyThermostat : BOOLEAN,
                          contractions : StepContractions(n),
                          integrationGroups : StepIntegrationGroups]
    /\ system \in [mass : [Particles -> {0, 1}]]
    /\ Constructed(UpdateShifts, BOOLEAN)
    /\ pc = "constructed"
    /\ q = <<>>
    /\ q0 = <<>>
    /\ copies = 0

Next ==
    \/ Initialize
    \/ \E c \in Beads(MaxCopies) : SetPositions(c)
    \/ \E c \in Beads(MaxCopies) : SetVelocities(c)
    \/ \E fav \in BOOLEAN : Execute(fav)
    \/ Thermostat
    \/ Kick
    \/ Drift
    \/ SetTime
    \/ ComputeForces
    \/ UpdateContextState
    \/ CalcForcesAndEnergy
    \/ OpenEndpoints
    \/ ContractPositions
    \/ ContractedCalc
    \/ ExtendForces

Spec == Init /\ [][Next]_vars

\* initialize() on the contraction maps and integration masks a caller can give.
InitInitialize ==
    /\ \E n \in 1..MaxCopies :
          integrator \in [numCopies : {n}, useOpenPath : {FALSE}, applyThermostat : {TRUE},
                          contractions : Maps(InitGroups, (-1)..(n+1)),
                          integrationGroups : InitIntegrationGroups]
    /\ system = [mass |-> [j \in Particles |-> 1]]
    /\ Constructed({0}, {FALSE})
    /\ pc = "constructed"
    /\ q = <<>>
    /\ q0 = <<>>
    /\ copies = 0

NextInitialize == Initialize

SpecInitialize == InitInitialize /\ [][NextInitialize]_vars

\* The packing and the unpacking on every spectrum: q as the forward transform
\* of line 464 or of line 496 left it (entries from copies on are what the
\* previous use of the buffer left).
InitContraction ==
    /\ \E n \in 1..MaxPackCopies :
          /\ integrator = [numCopies |-> n, useOpenPath |-> FALSE, applyThermostat |-> FALSE,
                           contractions |-> <<>>, integrationGroups |-> AllGroups]
          /\ copies \in 0..(n-1)
          /\ q \in [Beads(n) -> 1..MaxVal]
    /\ q0 = q
    /\ system = [mass |-> [j \in Particles |-> 1]]
    /\ Constructed({0}, {FALSE})
    /\ pc \in {"positionSpectrum", "forceSpectrum"}

NextContraction == PackModes \/ UnpackModes

SpecContraction == InitContraction /\ [][NextContraction]_vars

\* Lines 141-144: the forward transform of numCopies real velocities: bin 0
\* is real and bin numCopies-k is the conjugate of bin k.
TransformOfReal(half, numCopies) ==
    [k \in Beads(numCopies) |->
        IF 2 * k <= numCopies THEN half[k] ELSE Conj(half[numCopies - k])]

\* The mode update on the transform of every real velocity vector.
InitThermostat ==
    /\ \E n \in 1..MaxModeCopies :
          /\ integrator = [numCopies |-> n, useOpenPath |-> FALSE, applyThermostat |-> TRUE,
                           contractions |-> <<>>, integrationGroups |-> AllGroups]
          /\ \E half \in [0..(n \div 2) -> [re : 0..MaxMode, im : 0..MaxMode]] :
                /\ half[0].im = 0
                /\ n % 2 = 0 => half[n \div 2].im = 0
                /\ v = TransformOfReal(half, n)
    /\ applied = [before |-> <<>>, noise |-> <<>>, writes |-> <<>>]
    /\ system = [mass |-> [j \in Particles |-> 1]]
    /\ positions = <<>>
    /\ velocities = <<>>
    /\ forces = <<>>
    /\ groupsByCopies = <<>>
    /\ groupsNotContracted = {}
    /\ contractedPositions = <<>>
    /\ contractedForces = <<>>
    /\ context = [pos |-> ZeroVec, vel |-> ZeroVec, f |-> ZeroVec, box |-> 0, time |-> 0,
                  stepCount |-> 0, shift |-> 0, forceMovesBox |-> FALSE]
    /\ call = NoCall
    /\ i = 0
    /\ sched = {}
    /\ result = "none"
    /\ steps = 0
    /\ trace = <<>>
    /\ entry = [positions |-> <<>>, velocities |-> <<>>, forces |-> <<>>,
                draws |-> 0, time |-> 0, stepCount |-> 0]
    /\ boxChangedInCalc = FALSE
    /\ draws = [count |-> 0, last |-> <<>>]
    /\ audit = [touched |-> {}, completed |-> 0]
    /\ q = <<>>
    /\ q0 = <<>>
    /\ copies = 0
    /\ pc = "modes"

NextThermostat == ThermostatModes

SpecThermostat == InitThermostat /\ [][NextThermostat]_vars

----------------------------------------------------------------------------
(* Properties *)

IsUpdate(e) == e.op = "updateContextState"

IsCalc(e) == e.op = "calcForcesAndEnergy"

IsPhase(e) == e.op \in {"computeForces", "thermostat", "kick", "drift", "setTime"}

Updates == SelectSeq(trace, IsUpdate)

Calcs == SelectSeq(trace, IsCalc)

\* The events of the force evaluation that was entered last.
LastPass(t) ==
    LET marks == {n \in 1..Len(t) : t[n].op = "computeForces"}
    IN IF marks = {} THEN <<>> ELSE SubSeq(t, Max(marks) + 1, Len(t))

Returned == pc = "idle" /\ steps > 0

OpenWithContractions == integrator.useOpenPath /\ DOMAIN groupsByCopies # {}

\* C1 (as stated): every execute() that completes has invoked
\* updateContextState exactly once for each bead, whatever forcesAreValid is.
C1_UpdateOncePerStep ==
    result = "done" =>
        \A k \in Beads(integrator.numCopies) :
            Cardinality({n \in 1..Len(Updates) : Updates[n].bead = k}) = 1

\* C1 (amended): updateContextState and the full-P calcForcesAndEnergy are
\* issued bead by bead in ascending order, once per bead in each full-P pass;
\* an execute() that completes has run one pass when forcesAreValid is true
\* and two when it is false.
C1_UpdateOncePerPass ==
    LET P == integrator.numCopies
        passes == IF call.forcesAreValid THEN 1 ELSE 2
    IN /\ \A n \in 1..Len(Updates) : Updates[n].bead = (n - 1) % P
       /\ \A n \in 1..Len(Calcs) : Calcs[n].bead = (n - 1) % P
       /\ Len(Calcs) <= Len(Updates)
       /\ Len(Updates) <= Len(Calcs) + 1
       /\ Len(Updates) <= passes * P
       /\ result = "done" => Len(Updates) = passes * P /\ Len(Calcs) = passes * P

C1_Witness ==
    /\ result = "done"
    /\ ~call.forcesAreValid
    /\ integrator.numCopies >= 2
    /\ Len(Updates) = 2 * integrator.numCopies

\* C2: after initialize() succeeds, groupsNotContracted and the masks of
\* groupsByCopies are pairwise disjoint, each is a subset of the integration
\* groups, and their union is the integration groups.
C2_MasksPartitionIntegrationGroups ==
    pc = "load" =>
        LET masks == {groupsByCopies[c] : c \in DOMAIN groupsByCopies}
            ig == integrator.integrationGroups
        IN /\ \A c, d \in DOMAIN groupsByCopies :
                 c # d => groupsByCopies[c] \cap groupsByCopies[d] = {}
           /\ \A m \in masks : m \cap groupsNotContracted = {}
           /\ groupsNotContracted \subseteq ig
           /\ \A m \in masks : m \subseteq ig
           /\ groupsNotContracted \cup UNION masks = ig

\* C3: initialize() raises a configuration error or leaves a schedule whose
\* keys P' satisfy 1 <= P' <= P and P' # P, whose groups are in 0..31, and
\* workspaces of at least P' beads for every key P'.
C3_ScheduleInRange ==
    pc = "load" =>
        \A c \in DOMAIN groupsByCopies :
            /\ 1 <= c /\ c <= integrator.numCopies /\ c # integrator.numCopies
            /\ groupsByCopies[c] \subseteq 0..31
            /\ Beads(c) \subseteq DOMAIN contractedPositions
            /\ Beads(c) \subseteq DOMAIN contractedForces

C5_FailsEarly ==
    result = "contractions" =>
        /\ Updates = <<>>
        /\ Calcs = <<>>
        /\ positions = entry.positions
        /\ velocities = entry.velocities
        /\ forces = entry.forces

\* C6: when updateContextState for bead k moves the box, execute() raises the
\* barostat error at bead k: the call ends there, calcForcesAndEnergy has been
\* issued in this pass for the beads before k only, and the stored positions,
\* velocities and forces are left as they were.
C6_BarostatAbortsAtBead ==
    [][(pc = "update" /\ context'.box # context.box) =>
          /\ result' = "barostat"
          /\ pc' = "idle"
          /\ i' = i
          /\ trace' = Append(trace, Event("updateContextState", i, {}, TRUE))
          /\ LET pass == SelectSeq(LastPass(trace'), IsCalc)
             IN /\ Len(pass) = i
                /\ \A n \in 1..Len(pass) : pass[n].bead = n - 1
          /\ positions' = positions
          /\ velocities' = velocities
          /\ forces' = forces]_vars

C6_Witness ==
    /\ result = "barostat"
    /\ i > 0
    /\ context.vel # velocities[i]
    /\ context.pos = positions[i]

\* C7 (as stated): a force that moves the box inside calcForcesAndEnergy makes
\* execute() fail.
C7_CalcBoxChangeFails == ~(result = "done" /\ boxChangedInCalc)

\* C7 (amended): the box is compared across updateContextState only. An
\* updateContextState that moves the box makes execute() fail at that bead, so
\* at bead 0 of the first full-P pass when the first call moves it; no
\* execute() goes on, or completes, after such a call.
C7_UpdateBoxChangeFails ==
    /\ \A n \in 1..Len(Updates) :
          Updates[n].changed =>
              /\ result = "barostat"
              /\ n = Len(Updates)
              /\ trace[Len(trace)] = Updates[n]
    /\ result = "barostat" => Len(Updates) > 0 /\ Updates[Len(Updates)].changed
    /\ (Len(Updates) > 0 /\ Updates[1].changed) => Updates[1].bead = 0

C7_Witness ==
    /\ result = "barostat"
    /\ boxChangedInCalc
    /\ Len(Updates) > integrator.numCopies

\* The phases of a completed step, in order.
ExpectedPhases(forcesAreValid, applyThermostat) ==
    (IF forcesAreValid THEN <<>> ELSE <<"computeForces">>)
    \o (IF applyThermostat THEN <<"thermostat">> ELSE <<>>)
    \o <<"kick", "drift", "computeForces", "kick">>
    \o (IF applyThermostat THEN <<"thermostat">> ELSE <<>>)
    \o <<"setTime">>

PhasesOf(t) == [n \in 1..Len(SelectSeq(t, IsPhase)) |-> SelectSeq(t, IsPhase)[n].op]

IsPrefix(a, b) == Len(a) <= Len(b) /\ \A n \in 1..Len(a) : a[n] = b[n]

\* C8: a completed execute() has run: the force evaluation (only if
\* forcesAreValid is false), the thermostat (only if enabled), the kick, the
\* drift, the force evaluation, the kick, the thermostat (only if enabled) and
\* the time update, in this order; the second kick used the forces the
\* evaluation after the drift produced (for the closed path without
\* contractions: the engine's forces at the drifted positions); and the
\* variant is the open one exactly when the open-path flag is set.
C8_PhaseOrder ==
    steps > 0 =>
        LET expected == ExpectedPhases(call.forcesAreValid, integrator.applyThermostat)
        IN /\ IsPrefix(PhasesOf(trace), expected)
           /\ call.path = (IF integrator.useOpenPath THEN "open" ELSE "closed")
           /\ result = "done" =>
                 /\ PhasesOf(trace) = expected
                 /\ Len(call.kicks) = 2
                 /\ call.kicks[2] = forces
                 /\ (call.path = "closed" /\ DOMAIN groupsByCopies = {}) =>
                       \A k \in Beads(integrator.numCopies) :
                           forces[k] = EngineForce(positions[k], groupsNotContracted)

C8_Witness ==
    /\ result = "done"
    /\ ~call.forcesAreValid
    /\ integrator.applyThermostat
    /\ call.kicks[1] # call.kicks[2]
    /\ steps = 2

\* The mode held at place m of the packed buffer when the first c places keep
\* their modes and the others hold the top modes.
RetainedMode(m, c, totalCopies, ncopies) ==
    IF m < c THEN m ELSE totalCopies - ncopies + m

\* C9 (as stated): the packed buffer holds, in ascending order and with their
\* values, the modes [0, c) and [P-P'+c, P) for c = ceil((P'+1)/2).
C9_PackedModesCeil ==
    (pc = "packed" /\ copies >= 1) =>
        \A m \in Beads(copies) :
            q[m] = q0[RetainedMode(m, (copies + 2) \div 2, integrator.numCopies, copies)]

\* C9 (amended): the packed buffer holds, in ascending order and with their
\* values, the modes [0, c) and [P-P'+c, P) for c = floor((P'+1)/2).
C9_PackedModesFloor ==
    (pc = "packed" /\ copies >= 1) =>
        \A m \in Beads(copies) :
            q[m] = q0[RetainedMode(m, (copies + 1) \div 2, integrator.numCopies, copies)]

C9_Witness ==
    /\ pc = "packed"
    /\ integrator.numCopies = 4
    /\ copies = 2
    /\ q0[1] # q0[3]
    /\ q[1] = q0[3]

\* C10: after the unpacking, with c = ceil((P'+1)/2): b[i] = s[i] for i < c,
\* b[P-P'+i] = s[i] for c <= i < P', and b[i] = 0 for c <= i < P-P'+c.
C10_UnpackedModes ==
    (pc = "unpacked" /\ copies >= 1) =>
        LET c == (copies + 2) \div 2
            P == integrator.numCopies
        IN /\ \A n \in 0..(c - 1) : q[n] = q0[n]
           /\ \A n \in c..(copies - 1) : q[P - copies + n] = q0[n]
           /\ \A n \in c..(P - copies + c - 1) : q[n] = 0

\* C10 with c = floor((P'+1)/2), the start the code uses.
C10_UnpackedModesFloor ==
    (pc = "unpacked" /\ copies >= 1) =>
        LET c == (copies + 1) \div 2
            P == integrator.numCopies
        IN /\ \A n \in 0..(c - 1) : q[n] = q0[n]
           /\ \A n \in c..(copies - 1) : q[P - copies + n] = q0[n]
           /\ \A n \in c..(P - copies + c - 1) : q[n] = 0

\* The force evaluation entered last has run to its end, and the positions it
\* evaluated are still the stored ones.
ForcesFresh(path) ==
    /\ call.path = path
    /\ pc \notin {"update", "calc", "endpoints", "contract", "contractedCalc", "extend"}
    /\ Len(SelectSeq(LastPass(trace), IsCalc)) = integrator.numCopies
    /\ \A n \in 1..Len(LastPass(trace)) : LastPass(trace)[n].op # "drift"

\* The force the engine returns for bead k in the full-P pass.
FullForce(k) == EngineForce(positions[k], groupsNotContracted)

\* C11: after every open-path force evaluation, for every P >= 1 and every
\* particle, the stored force of bead 0 and of bead P-1 is exactly one half of
\* the force the engine returned for that bead, and the stored force of every
\* interior bead is the engine's force unchanged.
C11_EndpointsHalved ==
    ForcesFresh("open") =>
        \A k \in Beads(integrator.numCopies), j \in Particles :
            IF k \in {0, integrator.numCopies - 1}
            THEN 2 * forces[k][j] = FullForce(k)[j]
            ELSE forces[k][j] = FullForce(k)[j]

\* C11 for two beads or more, where bead 0 and bead P-1 are different beads.
C11_EndpointsHalvedFromTwoBeads ==
    (ForcesFresh("open") /\ integrator.numCopies >= 2) =>
        \A k \in Beads(integrator.numCopies), j \in Particles :
            IF k \in {0, integrator.numCopies - 1}
            THEN 2 * forces[k][j] = FullForce(k)[j]
            ELSE forces[k][j] = FullForce(k)[j]

\* C11 for one bead: bead 0 is halved as bead 0 and again as bead P-1.
C11_SingleBeadQuartered ==
    (ForcesFresh("open") /\ integrator.numCopies = 1) =>
        \A j \in Particles : 4 * forces[0][j] = FullForce(0)[j]

ZeroMass == {j \in Particles : system.mass[j] = 0}

\* The stored position and velocity of every bead of particle j are left as
\* they are by the step taken.
ParticleKept(j) ==
    \A k \in Beads(integrator.numCopies) :
        /\ positions'[k][j] = positions[k][j]
        /\ velocities'[k][j] = velocities[k][j]

\* C12: the thermostat, both kicks and the drift leave the stored position
\* and velocity of every particle of zero mass unchanged, in both modes; no
\* step of the integrator other than the staging of a bead to and from the
\* context (and the caller's setPositions / setVelocities) writes them, and
\* the phases never touch such a particle.
C12_ZeroMassSkipped ==
    [][/\ pc \in {"thermostat", "kick", "drift"} => \A j \in ZeroMass : ParticleKept(j)
       /\ pc \notin {"constructed", "load", "loadVelocities", "update"} =>
              \A j \in ZeroMass : ParticleKept(j)
       /\ audit'.touched \cap ZeroMass = {}]_vars

\* A step with the thermostat on completed for a particle of zero mass that
\* has a velocity and feels a force, and its stored state is that of entry.
C12_Witness ==
    /\ result = "done"
    /\ integrator.applyThermostat
    /\ context.shift = 0
    /\ \E j \in ZeroMass :
          /\ forces[0][j] # 0
          /\ velocities[0][j] # 0
          /\ \A k \in Beads(integrator.numCopies) :
                /\ positions[k][j] = entry.positions[k][j]
                /\ velocities[k][j] = entry.velocities[k][j]

\* The normals a thermostat application has to draw for mode k of one
\* component, as C13 counts them.
NormalsOfMode(path, numCopies, k) ==
    IF k = 0 THEN 1
    ELSE IF path = "closed"
    THEN (IF k > numCopies \div 2 THEN 0
          ELSE IF 2 * k = numCopies THEN 1 ELSE 2)
    ELSE (IF k <= numCopies - 1 THEN 1 ELSE 0)

PartRank(part) == CASE part = "centroid" -> 0 [] part = "rand1" -> 1 [] part = "rand2" -> 2

\* Draw a comes before draw b in the order particle, component, mode, part.
DrawBefore(a, b) ==
    \/ a.particle < b.particle
    \/ a.particle = b.particle /\ a.component < b.component
    \/ a.particle = b.particle /\ a.component = b.component /\ a.k < b.k
    \/ /\ a.particle = b.particle /\ a.component = b.component /\ a.k = b.k
       /\ PartRank(a.part) < PartRank(b.part)

ThermostatApplied == \E n \in DOMAIN trace : trace[n].op = "thermostat"

C14_TimeAndStepCount ==
    /\ context.stepCount = audit.completed
    /\ context.time = audit.completed
    /\ (steps > 0 /\ result # "done") =>
           /\ context.stepCount = entry.stepCount
           /\ context.time = entry.time
    /\ result = "done" =>
           /\ context.stepCount = entry.stepCount + 1
           /\ context.time = entry.time + 1

\* One call completed and a later one was aborted.
C14_Witness ==
    /\ result \in {"barostat", "contractions"}
    /\ steps = 2
    /\ audit.completed = 1
    /\ context.stepCount = 1

\* w[P-k] is the conjugate of w[k] for every k in 1..P-1, and w[0] is real
\* (so is the Nyquist bin of an even P, being its own mirror).
IsHermitian(w, P) ==
    /\ w[0].im = 0
    /\ \A k \in 1..(P - 1) : w[P - k].re = w[k].re /\ w[P - k].im = -w[k].im

\* C15: the mode update of the closed path's thermostat preserves the
\* Hermitian symmetry of the buffer for every P >= 1; every bin 0..P-1 is
\* updated exactly once, to its damped value plus its noise; mirror bins k
\* and P-k get the same damping factor and complex-conjugate noise, and the
\* centroid and the Nyquist bin get real noise.
C15_HermitianKept ==
    (pc = "modesDone" /\ IsHermitian(applied.before, integrator.numCopies)) =>
        LET P == integrator.numCopies
            w == applied.writes
        IN /\ IsHermitian(v, P)
           /\ \A b \in Beads(P) :
                 /\ Len(w[b]) = 1
                 /\ v[b].re = w[b][1].c1 * applied.before[b].re + w[b][1].noise.re
                 /\ v[b].im = w[b][1].c1 * applied.before[b].im + w[b][1].noise.im
           /\ \A k \in 1..(P - 1) :
                 /\ w[P - k][1].c1 = w[k][1].c1
                 /\ w[P - k][1].noise.re = w[k][1].noise.re
                 /\ w[P - k][1].noise.im = -w[k][1].noise.im
           /\ w[0][1].noise.im = 0
           /\ P % 2 = 0 => w[P \div 2][1].noise.im = 0

\* Four copies: bin 1 and its mirror bin 3 were updated with noise that has an
\* imaginary part, the Nyquist bin 2 with real noise.
C15_Witness ==
    /\ pc = "modesDone"
    /\ integrator.numCopies = 4
    /\ applied.before[1].im # 0
    /\ applied.writes[1][1].noise.im # 0
    /\ v[3].im = -v[1].im
    /\ v[2].im = 0

\* The contracted passes of the force evaluation entered last.
IsContractedCalc(e) == e.op = "contractedCalc"

\* The term the contraction on ncopies beads with the given mask adds to the
\* force of bead k of particle j, computed from the stored positions.
ContractionTerm(ncopies, mask, k, j) ==
    LET P == integrator.numCopies
        cpos == ContractedPositionsOf(positions, P, ncopies)
        cf == [b \in Beads(ncopies) |-> EngineForce(cpos[b], mask)]
    IN ExtendedForcesOf(cf, P, ncopies)[k][j]

RECURSIVE SumOfTerms(_, _, _)
SumOfTerms(keys, k, j) ==
    IF keys = {} THEN 0
    ELSE LET c == Min(keys)
         IN ContractionTerm(c, groupsByCopies[c], k, j) + SumOfTerms(keys \ {c}, k, j)

\* C16: after every closed-path force evaluation the stored force of every
\* bead is the force the full-P pass just returned for it with the mask
\* groupsNotContracted plus one term for each entry of the schedule, and
\* nothing else; the contracted pass of an entry evaluates exactly its P'
\* staged beads with the entry's mask, in the order of the schedule; no
\* updateContextState is called for a contracted bead, and every contracted
\* pass comes after the last evaluation of the full-P pass.
C16_FullPlusOnePerEntry ==
    ForcesFresh("closed") =>
        LET P == integrator.numCopies
            lp == LastPass(trace)
            cc == SelectSeq(lp, IsContractedCalc)
            At(op) == {n \in DOMAIN lp : lp[n].op = op}
        IN /\ \A k \in Beads(P), j \in Particles :
                 forces[k][j] = FullForce(k)[j] + SumOfTerms(DOMAIN groupsByCopies, k, j)
           /\ \A c \in DOMAIN groupsByCopies :
                 LET mine == {n \in DOMAIN cc : cc[n].mask = groupsByCopies[c]}
                 IN /\ Cardinality(mine) = c
                    /\ {cc[n].bead : n \in mine} = Beads(c)
                    /\ \A n, m \in mine : n < m => cc[n].bead < cc[m].bead
                    /\ \A d \in DOMAIN groupsByCopies, n \in mine, m \in DOMAIN cc :
                          (c < d /\ cc[m].mask = groupsByCopies[d]) => n < m
           /\ \A n \in DOMAIN cc : \E c \in DOMAIN groupsByCopies : cc[n].mask = groupsByCopies[c]
           /\ Cardinality(At("updateContextState")) = P
           /\ Cardinality(At("calcForcesAndEnergy")) = P
           /\ \A n \in At("contractedCalc") :
                 \A m \in At("updateContextState") \cup At("calcForcesAndEnergy") : m < n

\* The second force evaluation of a step on three copies with two entries in
\* the schedule has finished: both contractions have added a term to the
\* force of bead 0, and the forces differ from those of the first evaluation.
C16_Witness ==
    /\ ForcesFresh("closed")
    /\ integrator.numCopies = 3
    /\ DOMAIN groupsByCopies = {1, 2}
    /\ \E n \in DOMAIN trace : trace[n].op = "drift"
    /\ Len(call.kicks) >= 1
    /\ call.kicks[1] # forces
    /\ \E j \in Particles :
          /\ ContractionTerm(1, groupsByCopies[1], 0, j) # 0
          /\ ContractionTerm(2, groupsByCopies[2], 0, j) # 0
          /\ forces[0][j] = FullForce(0)[j] + ContractionTerm(1, groupsByCopies[1], 0, j)
                            + ContractionTerm(2, groupsByCopies[2], 0, j)

====
